---- MODULE Spec2Model ----
(***************************************************************************)
(* Model of the phantomdrop crate (src/src/lib.rs): the scope guard        *)
(* PhantomDrop<T, F> that stores a (payload, finalizer) pair in a          *)
(* MaybeUninit slot and calls the finalizer with the payload when dropped. *)
(*                                                                         *)
(* Payloads and finalizers are objects with an identity, so that moving,   *)
(* cloning, invoking and destroying them can be counted.  A guard is a     *)
(* binding (live or not: whether the language will still run Drop::drop    *)
(* for it) over a slot (how many times the pair was ptr::read out of it).  *)
(***************************************************************************)
EXTENDS Integers, Sequences, FiniteSets, TLC

\* ---- bounds of the model ------------------------------------------------
MaxGuards == 2
MaxFins == 3
MaxVal == 1

Val == 0..MaxVal
FTypes == {"closure", "fnptr", "boxed"}
ExitKinds == {"normal", "return", "unwind"}
\* no payload was returned by the last call
NoRet == -1
\* the value of a variable outside the guard that a finalizer has a mutable
\* reference to (held as the payload or captured): before and after the
\* finalizer assigned to it
ExtBefore == "Hello?"
ExtAfter == "Hello!"
\* a closure that only forwards the call to the callable it captured
Forwards(logic) == logic \in {"box", "wrap"}

VARIABLES guards, pays, fins, log, ext, written, given, ret, twin

vars == <<guards, pays, fins, log, ext, written, given, ret, twin>>

\* The heap/stack contents the library code works on.
World ==
    [guards |-> guards, pays |-> pays, fins |-> fins, log |-> log, ext |-> ext]

\* ---- objects handed to the library by its caller ------------------------
\* A payload value of type T.
AllocPay(W, x) ==
    [W EXCEPT !.pays = Append(@, [val |-> x, passed |-> 0,
                                  destroyed |-> 0, returned |-> 0])]

\* A finalizer object of type F.  logic "record" is a user closure such as
\* |string| { *string = String::from("Hello!"); println!("{}", string) }: it
\* assigns to the variable it has a reference to and prints the payload;
\* "noop" is core::mem::drop; "box" is a Box<dyn FnOnce(T)> wrapping the
\* finalizer object `inner`; "wrap" is the closure move |_| fun() that
\* captured the finalizer object `inner`.
AllocFin(W, logic, inner) ==
    [W EXCEPT !.fins = Append(@, [logic |-> logic, inner |-> inner,
                                  invoked |-> 0, destroyed |-> 0,
                                  why |-> "none"])]

\* f(v): calling a finalizer object consumes it and the payload.
RECURSIVE InvokeFin(_, _, _)
InvokeFin(W, i, p) ==
    LET W1 == [W EXCEPT !.fins[i].invoked = @ + 1]
    IN  CASE Forwards(W.fins[i].logic) -> InvokeFin(W1, W.fins[i].inner, p)
          [] W.fins[i].logic = "record" ->
                [W1 EXCEPT !.log = Append(@, [f |-> i, p |-> p, v |-> W.pays[p].val]),
                           !.ext = ExtAfter,
                           !.pays[p].passed = @ + 1]
          [] OTHER -> [W1 EXCEPT !.pays[p].passed = @ + 1]

\* The destructor of a finalizer object that was not called.
RECURSIVE DestroyFin(_, _, _)
DestroyFin(W, i, why) ==
    LET W1 == [W EXCEPT !.fins[i].destroyed = @ + 1, !.fins[i].why = why]
    IN  IF Forwards(W.fins[i].logic) THEN DestroyFin(W1, W.fins[i].inner, why)
        ELSE W1

\* The destructor of a payload that was not handed to a finalizer.
DestroyPay(W, p) == [W EXCEPT !.pays[p].destroyed = @ + 1]

\* ---- the library ----------------------------------------------------------
\* a constructor that calls fun with value at once and stores the spent pair
NewWRunsNow(W, p, f, ftype, from, src) ==
    InvokeFin([W EXCEPT !.guards =
                  Append(@, [live |-> TRUE, reads |-> 0, v |-> p, f |-> f,
                             ftype |-> ftype, by |-> "none", how |-> "none",
                             from |-> from, src |-> src])], f, p)

\* PhantomDrop::new: Self(MaybeUninit::new((value, fun))).
\* (from, src: which call made the guard, and out of which guard)
NewW(W, p, f, ftype, from, src) ==
    [W EXCEPT !.guards = Append(@, [live |-> TRUE, reads |-> 0, v |-> p,
                                    f |-> f, ftype |-> ftype, by |-> "none",
                                    how |-> "none", from |-> from,
                                    src |-> src])]

\* a destructor that reads the pair out and lets it fall without calling f
DropWNoCall(W, g) ==
    LET W1 == [W EXCEPT !.guards[g].live = FALSE, !.guards[g].reads = @ + 1]
    IN  DestroyPay(DestroyFin(W1, W.guards[g].f, "drop"), W.guards[g].v)

\* impl Drop: let (v, f) = self.0.as_ptr().read(); f(v);
DropW(W, g) ==
    LET W1 == [W EXCEPT !.guards[g].live = FALSE, !.guards[g].reads = @ + 1]
    IN  InvokeFin(W1, W.guards[g].f, W.guards[g].v)

\* into_raw_parts without the mem::forget: self is dropped on return.
IntoRawPartsNoForget(W, g) ==
    DropW([W EXCEPT !.guards[g].reads = @ + 1], g)

\* into_raw_parts: read the pair out of the slot, then mem::forget(self).
IntoRawParts(W, g) ==
    [W EXCEPT !.guards[g].reads = @ + 1, !.guards[g].live = FALSE]

\* an into_inner that calls the finalizer half instead of dropping it
IntoInnerRuns(W, g, why) ==
    InvokeFin(IntoRawParts(W, g), W.guards[g].f, W.guards[g].v)

\* into_inner: into_raw_parts().0; the finalizer half of the tuple is dropped.
IntoInnerWhy(W, g, why) ==
    DestroyFin(IntoRawParts(W, g), W.guards[g].f, why)

IntoInnerW(W, g) == IntoInnerWhy(W, g, "into_inner")

\* a forget that is core::mem::forget: nothing is destroyed
ForgetLeak(W, g) == IntoRawParts(W, g)

\* forget: the whole tuple returned by into_raw_parts is dropped.
ForgetW(W, g) ==
    DestroyPay(DestroyFin(IntoRawParts(W, g), W.guards[g].f, "forget"),
               W.guards[g].v)

\* an as_mut that hands out a reference to a copy of the payload
AsMutCopy(W, g, x) == W

\* as_mut: &mut self.value_mut().0, written through by the holder.
AsMutW(W, g, x) == [W EXCEPT !.pays[W.guards[g].v].val = x]

\* an as_ref that borrows the other half of the pair
AsRefOtherHalf(W, g) == W.guards[g].f

\* as_ref: &self.value_ref().0
AsRefW(W, g) == W.pays[W.guards[g].v].val

\* a clone that copies the payload bits instead of calling T::clone
CloneShallow(W, g) ==
    LET W2 == AllocFin(W, W.fins[W.guards[g].f].logic, W.fins[W.guards[g].f].inner)
    IN  NewW(W2, W.guards[g].v, Len(W2.fins), W.guards[g].ftype, "clone", g)

\* a clone that copies the finalizer bits instead of calling F::clone
CloneSharesFin(W, g) ==
    LET W1 == AllocPay(W, W.pays[W.guards[g].v].val)
    IN  NewW(W1, Len(W1.pays), W.guards[g].f, W.guards[g].ftype, "clone", g)

\* a clone that moves the pair out of self and forgets it
CloneMoves(W, g) ==
    NewW(IntoRawParts(W, g), W.guards[g].v, W.guards[g].f, W.guards[g].ftype,
         "clone", g)

\* clone: Self(MaybeUninit::new((re.0.clone(), re.1.clone())))
CloneW(W, g) ==
    LET W1 == AllocPay(W, W.pays[W.guards[g].v].val)
        W2 == AllocFin(W1, W.fins[W.guards[g].f].logic, W.fins[W.guards[g].f].inner)
    IN  NewW(W2, Len(W2.pays), Len(W2.fins), W.guards[g].ftype, "clone", g)

\* a neutralise that re-wraps the pair with the finalizer it had
NeutraliseKeepsFin(W, g) ==
    NewW(IntoRawParts(W, g), W.guards[g].v, W.guards[g].f, "fnptr",
         "neutralise", g)

\* neutralise: PhantomDrop::new(self.into_inner(), drop)
NeutraliseW(W, g) ==
    LET W1 == AllocFin(IntoInnerWhy(W, g, "neutralise"), "noop", 0)
    IN  NewW(W1, W.guards[g].v, Len(W1.fins), "fnptr", "neutralise", g)

\* a boxed that keeps the payload and boxes a no-op: new(into_inner(), Box::new(drop))
BoxedLosesFin(W, g) ==
    LET W1 == AllocFin(IntoInnerWhy(W, g, "boxed"), "noop", 0)
    IN  NewW(W1, W.guards[g].v, Len(W1.fins), "boxed", "boxed", g)

\* a boxed that reads the pair out of the slot and leaves self to be dropped
BoxedNoForget(W, g) ==
    LET W1 == AllocFin(W, "box", W.guards[g].f)
    IN  NewW(W1, W.guards[g].v, Len(W1.fins), "boxed", "boxed", g)

\* boxed: let (v, f) = self.into_raw_parts(); PhantomDrop::new(v, Box::new(f))
BoxedW(W, g) ==
    LET W1 == AllocFin(IntoRawParts(W, g), "box", W.guards[g].f)
    IN  NewW(W1, W.guards[g].v, Len(W1.fins), "boxed", "boxed", g)

\* a replacement that calls the finalizer it takes out of the slot
ReplaceFinRuns(W, g, why) ==
    LET W1 == AllocFin(InvokeFin(W, W.guards[g].f, W.guards[g].v), "noop", 0)
    IN  [W1 EXCEPT !.guards[g].f = Len(W1.fins)]

\* a replacement by ptr::write: the finalizer that was stored is overwritten
\* without being dropped
ReplaceFinLeaks(W, g, why) ==
    LET W1 == AllocFin(W, "noop", 0)
    IN  [W1 EXCEPT !.guards[g].f = Len(W1.fins)]

\* self.value_mut().1 = <no-op>: the assignment drops the finalizer that
\* was stored and stores the new one; the payload half is not touched.
ReplaceFin(W, g, why) ==
    LET W1 == AllocFin(DestroyFin(W, W.guards[g].f, why), "noop", 0)
    IN  [W1 EXCEPT !.guards[g].f = Len(W1.fins)]

\* neutralise_boxed: self.value_mut().1 = Box::new(drop)
NeutraliseBoxedW(W, g) == ReplaceFin(W, g, "neutralise_boxed")

\* neutralise_in_place: self.value_mut().1 = drop
NeutraliseInPlaceW(W, g) == ReplaceFin(W, g, "neutralise_in_place")

\* ghost marks: which operation ended the guard binding, and how
Mark(W, g, by, how) ==
    [W EXCEPT !.guards[g].by = by, !.guards[g].how = how]

\* Scope exit: the language drops the live locals in reverse declaration
\* order.
RECURSIVE DropAll(_, _, _)
DropAll(W, n, how) ==
    IF n = 0 THEN W
    ELSE IF W.guards[n].live
         THEN DropAll(Mark(DropW(W, n), n, "drop", how), n - 1, how)
         ELSE DropAll(W, n - 1, how)

\* Nothing constructed yet.
Empty ==
    [guards |-> << >>, pays |-> << >>, fins |-> << >>, log |-> << >>,
     ext |-> ExtBefore]

\* no second run is followed
NoTwin == << >>

\* The state after  let guard = PhantomDrop::new(value, fun);  for a payload
\* value and a finalizer of one of the three kinds of F.
Init ==
    /\ \E x \in Val, t \in FTypes :
          LET W0 == Empty
              W1 == AllocFin(AllocPay(W0, x), "record", 0)
              W2 == NewW(W1, Len(W1.pays), Len(W1.fins), t, "new", 0)
          IN  /\ guards = W2.guards
              /\ pays = W2.pays
              /\ fins = W2.fins
              /\ log = W2.log
              /\ ext = W2.ext
              /\ written = << x >>
              /\ given = x
    /\ ret = NoRet
    /\ twin = NoTwin

\* the step's effect on the world, and what the call returned to the holder
Commit(W, r) ==
    /\ guards' = W.guards
    /\ pays' = W.pays
    /\ fins' = W.fins
    /\ log' = W.log
    /\ ext' = W.ext
    /\ ret' = r
    /\ UNCHANGED <<given, twin>>

Live(g) == g \in 1..Len(guards) /\ guards[g].live

\* let guard2 = guard.clone();
Clone(g) ==
    /\ Live(g)
    /\ guards[g].ftype # "boxed"
    /\ Len(guards) < MaxGuards
    /\ Len(fins) < MaxFins
    /\ Commit(CloneW(World, g), NoRet)
    /\ written' = Append(written, pays[guards[g].v].val)

\* let value = guard.into_inner();
IntoInner(g) ==
    /\ Live(g)
    /\ LET W1 == Mark(IntoInnerW(World, g), g, "into_inner", "none")
           p == guards[g].v
       IN  Commit([W1 EXCEPT !.pays[p].returned = @ + 1], W1.pays[p].val)
    /\ UNCHANGED written

\* guard.forget();
Forget(g) ==
    /\ Live(g)
    /\ Commit(Mark(ForgetW(World, g), g, "forget", "none"), NoRet)
    /\ UNCHANGED written

\* *guard.as_mut() = x;
AsMut(g, x) ==
    /\ Live(g)
    /\ Commit(AsMutW(World, g, x), NoRet)
    /\ written' = [written EXCEPT ![guards[g].v] = x]

\* let x = *guard.as_ref();
AsRef(g) ==
    /\ Live(g)
    /\ Commit(World, AsRefW(World, g))
    /\ UNCHANGED written

\* let guard2 = guard.neutralise();
Neutralise(g) ==
    /\ Live(g)
    /\ Len(guards) < MaxGuards
    /\ Len(fins) < MaxFins
    /\ Commit(Mark(NeutraliseW(World, g), g, "neutralise", "none"), NoRet)
    /\ UNCHANGED written

\* let guard2 = guard.boxed();
Boxed(g) ==
    /\ Live(g)
    /\ guards[g].ftype = "boxed"
    /\ Len(guards) < MaxGuards
    /\ Len(fins) < MaxFins
    /\ Commit(Mark(BoxedW(World, g), g, "boxed", "none"), NoRet)
    /\ UNCHANGED written

\* guard.neutralise_boxed();
NeutraliseBoxed(g) ==
    /\ Live(g)
    /\ guards[g].ftype = "boxed"
    /\ Len(fins) < MaxFins
    /\ Commit(NeutraliseBoxedW(World, g), NoRet)
    /\ UNCHANGED written

\* guard.neutralise_in_place();
NeutraliseInPlace(g) ==
    /\ Live(g)
    /\ guards[g].ftype = "fnptr"
    /\ Len(fins) < MaxFins
    /\ Commit(NeutraliseInPlaceW(World, g), NoRet)
    /\ UNCHANGED written

\* One guard's lifetime ends on its own: the end of an inner block, or
\* drop(guard).
DropGuard(g) ==
    /\ Live(g)
    /\ Commit(Mark(DropW(World, g), g, "drop", "normal"), NoRet)
    /\ UNCHANGED written

\* The owning function is left (it runs to its end, returns early or
\* unwinds): every guard still alive is dropped, last declared first.
ScopeExit(how) ==
    /\ \E g \in 1..Len(guards) : guards[g].live
    /\ Commit(DropAll(World, Len(guards), how), NoRet)
    /\ UNCHANGED written

Next ==
    \/ \E g \in 1..Len(guards) : Clone(g)
    \/ \E g \in 1..Len(guards) : IntoInner(g)
    \/ \E g \in 1..Len(guards) : Forget(g)
    \/ \E g \in 1..Len(guards), x \in Val : AsMut(g, x)
    \/ \E g \in 1..Len(guards) : AsRef(g)
    \/ \E g \in 1..Len(guards) : Neutralise(g)
    \/ \E g \in 1..Len(guards) : Boxed(g)
    \/ \E g \in 1..Len(guards) : NeutraliseBoxed(g)
    \/ \E g \in 1..Len(guards) : NeutraliseInPlace(g)
    \/ \E g \in 1..Len(guards) : DropGuard(g)
    \/ \E how \in ExitKinds : ScopeExit(how)

Spec == Init /\ [][Next]_vars

\* ---- what the claims speak about ----------------------------------------
G == 1..Len(guards)

\* the callable at the bottom of a chain of boxes
RECURSIVE Leaf(_, _)
Leaf(F, i) == IF Forwards(F[i].logic) THEN Leaf(F, F[i].inner) ELSE i

\* the record() side effects caused with payload object p
Entries(L, p) == {k \in 1..Len(L) : L[k].p = p}

Explicit == {"into_inner", "forget", "neutralise", "boxed"}

\* C1: no finalizer object is ever called more than once, and the pair of a
\* guard is read out of its slot at most once: by an explicit extraction
\* (into_inner, forget, neutralise, boxed) or by Drop::drop, never by both;
\* a finalizer discarded by into_inner, forget or neutralise was not called.
C1_AtMostOnce ==
    /\ \A i \in 1..Len(fins) : fins[i].invoked <= 1
    /\ \A g \in G :
          /\ guards[g].reads <= 1
          /\ guards[g].by \in Explicit \ {"boxed"} =>
                fins[guards[g].f].invoked = 0

C1_Witness ==
    \E g, h \in G :
       /\ guards[g].by = "into_inner" /\ guards[g].reads = 1
       /\ guards[h].by = "drop" /\ guards[h].reads = 1
       /\ fins[guards[h].f].invoked = 1

\* C2: a guard that was dropped (alone, or when its scope was left normally,
\* by an early return or by an unwind) had the finalizer it stored called
\* exactly once, with the payload it stored: the payload was handed over
\* once and every recording finalizer recorded it once, with its value.
C2_DropRunsOnce ==
    \A g \in G :
       guards[g].by = "drop" =>
          /\ guards[g].how \in ExitKinds
          /\ fins[guards[g].f].invoked = 1
          /\ fins[Leaf(fins, guards[g].f)].invoked = 1
          /\ pays[guards[g].v].passed = 1
          /\ pays[guards[g].v].destroyed = 0
          /\ fins[Leaf(fins, guards[g].f)].logic = "record" =>
                /\ Cardinality(Entries(log, guards[g].v)) = 1
                /\ \A k \in Entries(log, guards[g].v) :
                      /\ log[k].f = Leaf(fins, guards[g].f)
                      /\ log[k].v = pays[guards[g].v].val

C2_Witness ==
    /\ guards[1].from = "new" /\ guards[1].by = "drop"
    /\ guards[1].how = "unwind" /\ guards[1].f = 1
    /\ log = << [f |-> 1, p |-> 1, v |-> pays[1].val] >>

\* C3: the step into_inner(g) returns the payload value held at that moment
\* and records nothing, and neither that step nor any later step calls the
\* finalizer g held.
C3_IntoInner ==
    [][\A g \in G :
          /\ (guards[g].live /\ guards'[g].by = "into_inner") =>
                /\ ret' = pays[guards[g].v].val
                /\ ret' = written[guards[g].v]
                /\ log' = log
                /\ fins'[guards[g].f].invoked = 0
          /\ guards[g].by = "into_inner" =>
                /\ fins'[guards[g].f].invoked = 0
                /\ Entries(log', guards[g].v) = {}]_vars

C3_Witness ==
    \E g \in G :
       /\ guards[g].by = "into_inner"
       /\ ret = pays[guards[g].v].val
       /\ g = 1 /\ ret # given
       /\ fins[guards[g].f].invoked = 0

\* C4: after forget(g) the finalizer g held was never called, and the
\* payload and the finalizer object were each destroyed exactly once (and
\* the payload was neither handed to a finalizer nor returned).
C4_Forget ==
    \A g \in G :
       guards[g].by = "forget" =>
          /\ fins[guards[g].f].invoked = 0
          /\ fins[Leaf(fins, guards[g].f)].invoked = 0
          /\ fins[guards[g].f].destroyed = 1
          /\ fins[Leaf(fins, guards[g].f)].destroyed = 1
          /\ pays[guards[g].v].destroyed = 1
          /\ pays[guards[g].v].passed = 0
          /\ pays[guards[g].v].returned = 0
          /\ Entries(log, guards[g].v) = {}

C4_Witness ==
    \E g \in G :
       /\ guards[g].by = "forget"
       /\ fins[guards[g].f].destroyed = 1
       /\ pays[guards[g].v].destroyed = 1

\* C5: a recording finalizer called by the drop of a guard received the
\* value last written to the payload (through as_mut, or else the one the
\* guard was made with).
C5_MutationVisible ==
    \A g \in G :
       (guards[g].by = "drop" /\ fins[Leaf(fins, guards[g].f)].logic = "record") =>
          \E k \in Entries(log, guards[g].v) :
             log[k].v = written[guards[g].v]

C5_Witness ==
    /\ guards[1].from = "new" /\ guards[1].by = "drop"
    /\ \E k \in Entries(log, guards[1].v) :
          log[k].v = written[guards[1].v] /\ log[k].v # given

\* C6: the step neutralise(g) calls no finalizer and records nothing, and
\* makes a new armed guard over the same payload object, its value
\* unchanged, with a no-op finalizer; in no later step (the destruction of
\* the new guard included) is the finalizer g held called or anything
\* recorded with that payload.
C6_Neutralise ==
    [][\A g \in G :
          /\ (guards[g].live /\ guards'[g].by = "neutralise") =>
                LET n == Len(guards')
                IN  /\ n = Len(guards) + 1
                    /\ guards'[n].live /\ guards'[n].reads = 0
                    /\ guards'[n].v = guards[g].v
                    /\ pays'[guards[g].v] = pays[guards[g].v]
                    /\ fins'[guards'[n].f].logic = "noop"
                    /\ fins'[guards'[n].f].invoked = 0
                    /\ fins'[guards[g].f].invoked = 0
                    /\ log' = log
          /\ guards[g].by = "neutralise" =>
                /\ fins'[guards[g].f].invoked = 0
                /\ Entries(log', guards[g].v) = {}]_vars

C6_Witness ==
    \E n \in G :
       /\ guards[n].from = "neutralise" /\ guards[n].by = "drop"
       /\ guards[guards[n].src].by = "neutralise"
       /\ pays[guards[n].v].val = written[guards[n].v]
       /\ fins[guards[guards[n].src].f].invoked = 0
       /\ log = << >>

\* the finalizers taken out of their slot by an in-place replacement
Displaced(F) ==
    {i \in 1..Len(F) : F[i].why \in {"neutralise_in_place", "neutralise_boxed"}}

\* C7: a step that replaces the finalizer of g in place (neutralise_in_place,
\* neutralise_boxed) stores a no-op, does not call the finalizer it displaces,
\* records nothing, leaves every payload as it was and leaves g armed over
\* the same payload; a displaced finalizer is not called in any later step.
C7_InPlace ==
    [][/\ \A g \in G :
             (guards[g].live /\ guards'[g].f # guards[g].f) =>
                /\ guards'[g] = [guards[g] EXCEPT !.f = Len(fins')]
                /\ guards'[g].live /\ guards'[g].reads = 0
                /\ fins'[guards'[g].f].logic = "noop"
                /\ fins'[guards'[g].f].invoked = 0
                /\ guards[g].f \in Displaced(fins')
                /\ fins'[guards[g].f].invoked = 0
                /\ pays' = pays
                /\ log' = log
       /\ \A i \in Displaced(fins) : fins'[i].invoked = 0]_vars

C7_Witness ==
    /\ guards[1].by = "drop" /\ guards[1].f # 1
    /\ fins[1].why = "neutralise_in_place" /\ fins[1].invoked = 0
    /\ fins[guards[1].f].logic = "noop"
    /\ pays[1].val # given
    /\ log = << >>

\* C8: a clone has a payload object and a finalizer object of its own; when
\* the original and the clone were both dropped holding their recording
\* finalizers, each finalizer was called once and recorded, once, the last
\* value written to its own guard's payload.
C8_CloneIndependent ==
    \A c \in G :
       guards[c].from = "clone" =>
          LET g == guards[c].src
          IN  /\ guards[c].v # guards[g].v
              /\ guards[c].f # guards[g].f
              /\ ( /\ guards[g].by = "drop" /\ guards[c].by = "drop"
                   /\ fins[guards[g].f].logic = "record"
                   /\ fins[guards[c].f].logic = "record" ) =>
                    /\ fins[guards[g].f].invoked = 1
                    /\ fins[guards[c].f].invoked = 1
                    /\ \A x \in {g, c} :
                          /\ Cardinality(Entries(log, guards[x].v)) = 1
                          /\ \A k \in Entries(log, guards[x].v) :
                                /\ log[k].f = guards[x].f
                                /\ log[k].v = written[guards[x].v]

C8_Witness ==
    \E c \in G :
       /\ guards[c].from = "clone" /\ guards[c].by = "drop"
       /\ guards[guards[c].src].by = "drop"
       /\ Len(log) = 2
       /\ log[1].v # log[2].v
       /\ log[1].f # log[2].f

\* the step defuses or neutralises g
Defuses(g) ==
    /\ guards[g].live
    /\ \/ guards'[g].by \in {"into_inner", "forget", "neutralise"}
       \/ guards'[g].f # guards[g].f

Armed(g) == guards[g].live /\ guards[g].reads = 0
Disarmed(g) == ~guards[g].live /\ guards[g].reads = 1

\* C10: every guard is armed or disarmed and not both; a disarmed guard
\* stays disarmed and does not change any more; and a guard goes from armed
\* to disarmed only in a step that is into_inner, forget, neutralise or
\* boxed called on it, or its drop.
C10_TwoStates ==
    [][\A g \in 1..Len(guards') :
          /\ Armed(g)' # Disarmed(g)'
          /\ g \in G =>
                /\ Armed(g) # Disarmed(g)
                /\ Disarmed(g) => (Disarmed(g)' /\ guards'[g] = guards[g])
                /\ (Armed(g) /\ ~Armed(g)') =>
                      /\ Disarmed(g)'
                      /\ guards[g].by = "none"
                      /\ guards'[g].by \in Explicit \cup {"drop"}
                /\ (Armed(g) /\ Armed(g)') => guards'[g].by = "none"]_vars

C10_Witness ==
    \E g, h \in G :
       /\ Disarmed(g) /\ guards[g].by \in Explicit
       /\ Disarmed(h) /\ guards[h].by = "drop"

\* the drop of g calls a finalizer of the user (one that assigns to the
\* outside variable)
UserFin(g) == fins[Leaf(fins, guards[g].f)].logic = "record"

\* C12: the outside variable a finalizer has a mutable reference to keeps
\* its value as long as no guard holding such a finalizer was dropped; it
\* changes only in a step that drops an armed guard holding one, and right
\* after such a step it has the value the finalizer assigns.
C12_EffectAtDrop ==
    [][/\ (\A g \in G : ~(guards[g].by = "drop" /\ UserFin(g))) =>
             ext = ExtBefore
       /\ ext' # ext =>
             \E g \in G : guards[g].live /\ guards'[g].by = "drop" /\ UserFin(g)
       /\ \A g \in G :
             (guards[g].live /\ guards'[g].by = "drop" /\ UserFin(g)) =>
                ext' = ExtAfter]_vars

C12_Witness ==
    /\ Len(guards) = 1 /\ guards[1].by = "drop" /\ guards[1].f = 1
    /\ ext = ExtAfter

\* the step is a call of as_mut that wrote a new value / a call of as_ref
AsMutStep == Len(written') = Len(written) /\ written' # written
AsRefStep ==
    /\ ret' # NoRet
    /\ \A g \in G : ~(guards[g].live /\ guards'[g].by = "into_inner")

\* C13: a call of as_mut or as_ref leaves every guard as it was (armed, same
\* payload object, same finalizer), calls and destroys no finalizer and has
\* no side effect; as_mut changes only the value of the payload of the guard
\* it is called on, and as_ref changes nothing and returns the value last
\* written to the payload of an armed guard.
C13_Accessors ==
    [][/\ AsMutStep =>
             /\ guards' = guards /\ fins' = fins /\ log' = log /\ ext' = ext
             /\ \E g \in G :
                   /\ Armed(g)
                   /\ pays' = [pays EXCEPT ![guards[g].v].val =
                                               written'[guards[g].v]]
       /\ AsRefStep =>
             /\ guards' = guards /\ fins' = fins /\ log' = log /\ ext' = ext
             /\ pays' = pays
             /\ \E g \in G :
                   /\ Armed(g)
                   /\ ret' = written[guards[g].v]
                   /\ ret' = pays[guards[g].v].val]_vars

C13_Witness ==
    /\ Len(guards) = 1 /\ Armed(1) /\ guards[1].f = 1
    /\ fins[1].invoked = 0 /\ fins[1].destroyed = 0
    /\ ret = written[1] /\ ret = pays[1].val /\ ret # given
    /\ log = << >>

\* C14: the step boxed(g) calls and destroys no finalizer and has no side
\* effect, and makes a new armed guard over the same payload object, its
\* value unchanged, whose finalizer is a box around the finalizer g held; a
\* box and the finalizer in it are called together, at most once; and the
\* drop of the new guard, still holding the box, calls the finalizer g held
\* for the first and only time, with the payload.
C14_Boxed ==
    [][/\ \A g \in G :
             (guards[g].live /\ guards'[g].by = "boxed") =>
                LET n == Len(guards')
                IN  /\ n = Len(guards) + 1
                    /\ guards'[n].live /\ guards'[n].reads = 0
                    /\ guards'[n].v = guards[g].v
                    /\ pays' = pays
                    /\ fins'[guards'[n].f].logic = "box"
                    /\ fins'[guards'[n].f].inner = guards[g].f
                    /\ Leaf(fins', guards'[n].f) = Leaf(fins, guards[g].f)
                    /\ \A i \in 1..Len(fins) : fins'[i] = fins[i]
                    /\ fins'[guards'[n].f].invoked = 0
                    /\ log' = log /\ ext' = ext
       /\ \A b \in 1..Len(fins') :
             fins'[b].logic = "box" =>
                /\ fins'[b].invoked = fins'[fins'[b].inner].invoked
                /\ fins'[b].invoked <= 1
       /\ \A n \in G :
             ( /\ guards[n].from = "boxed" /\ guards[n].live
               /\ guards'[n].by = "drop"
               /\ fins[guards[n].f].logic = "box" ) =>
                LET o == guards[guards[n].src].f
                IN  /\ fins[guards[n].f].inner = o
                    /\ fins[o].invoked = 0 /\ fins'[o].invoked = 1
                    /\ pays'[guards[n].v].passed = 1
                    /\ fins[Leaf(fins, o)].logic = "record" =>
                          \E k \in Entries(log', guards[n].v) :
                             /\ k > Len(log)
                             /\ log'[k].f = Leaf(fins, o)
                             /\ log'[k].v = pays[guards[n].v].val]_vars

C14_Witness ==
    \E n \in G :
       /\ guards[n].from = "boxed" /\ guards[n].by = "drop"
       /\ guards[guards[n].src].by = "boxed"
       /\ fins[guards[n].f].logic = "box"
       /\ fins[guards[guards[n].src].f].invoked = 1
       /\ log = << [f |-> guards[guards[n].src].f, p |-> guards[n].v,
                    v |-> pays[guards[n].v].val] >>

\* the armed guards that own payload object p
Holders(p) == {g \in G : guards[g].live /\ guards[g].v = p}

\* how often payload object p was consumed, by whomever
Consumed(p) == pays[p].passed + pays[p].returned + pays[p].destroyed

\* C16: every payload object is owned by at most one armed guard; it is
\* consumed at most once in all, and exactly once as soon as no armed guard
\* owns it (never leaked); and the consumer is the one the end of its guard
\* names: the finalizer for a drop, the caller for into_inner, the destructor
\* for forget, and a successor guard over the same object for neutralise and
\* boxed.
C16_PayloadConserved ==
    /\ \A p \in 1..Len(pays) :
          /\ Cardinality(Holders(p)) <= 1
          /\ Consumed(p) <= 1
          /\ (Consumed(p) = 1) <=> (Holders(p) = {})
    /\ \A g \in G :
          LET p == guards[g].v
          IN  /\ guards[g].by = "drop" => pays[p].passed = 1
              /\ guards[g].by = "into_inner" => pays[p].returned = 1
              /\ guards[g].by = "forget" => pays[p].destroyed = 1
              /\ guards[g].by \in {"neutralise", "boxed"} =>
                    \E n \in G : /\ guards[n].src = g
                                 /\ guards[n].from = guards[g].by
                                 /\ guards[n].v = p

C16_Witness ==
    \E n \in G :
       /\ guards[n].from \in {"neutralise", "boxed"}
       /\ guards[n].by = "into_inner"
       /\ guards[n].v = 1
       /\ pays[1].returned = 1 /\ pays[1].passed = 0 /\ pays[1].destroyed = 0

\* the finalizer objects an armed guard stores, boxes and captures included
RECURSIVE Chain(_, _)
Chain(F, i) == IF Forwards(F[i].logic) THEN {i} \cup Chain(F, F[i].inner) ELSE {i}

Stored(i) == \E g \in G : guards[g].live /\ i \in Chain(fins, guards[g].f)

\* C17: every finalizer object was called or destroyed at most once in all,
\* and exactly once as soon as no armed guard stores it; and a step that
\* puts a new finalizer in the place of the one a guard held (neutralise,
\* neutralise_in_place, neutralise_boxed) destroys the one it displaces,
\* uncalled, in that very step.
C17_FinalizerConserved ==
    [][/\ \A i \in 1..Len(fins) :
             /\ fins[i].invoked + fins[i].destroyed <= 1
             /\ (fins[i].invoked + fins[i].destroyed = 1) <=> ~Stored(i)
       /\ \A i \in 1..Len(fins') :
             fins'[i].invoked + fins'[i].destroyed <= 1
       /\ \A g \in G :
             ( /\ guards[g].live
               /\ \/ guards'[g].f # guards[g].f
                  \/ guards'[g].by = "neutralise" ) =>
                \A i \in Chain(fins, guards[g].f) :
                   /\ fins[i].destroyed = 0
                   /\ fins'[i].destroyed = 1
                   /\ fins'[i].invoked = 0]_vars

C17_Witness ==
    /\ \A g \in G : ~guards[g].live
    /\ \E i, j, k \in 1..Len(fins) :
          /\ fins[i].why = "neutralise" /\ fins[i].destroyed = 1
          /\ fins[j].why \in {"neutralise_in_place", "neutralise_boxed"}
          /\ fins[j].destroyed = 1 /\ fins[j].invoked = 0
          /\ fins[k].invoked = 1 /\ fins[k].destroyed = 0

\* C18: the step that clones g calls and destroys no finalizer, has no side
\* effect, and leaves g, its payload and its finalizer as they were: g is
\* still armed over the same payload value and the same finalizer.
C18_CloneFrame ==
    [][\A c \in 1..Len(guards') :
          (c > Len(guards) /\ guards'[c].from = "clone") =>
             LET g == guards'[c].src
             IN  /\ g \in G
                 /\ Armed(g)
                 /\ guards'[g] = guards[g]
                 /\ pays'[guards[g].v] = pays[guards[g].v]
                 /\ \A i \in 1..Len(fins) : fins'[i] = fins[i]
                 /\ log' = log /\ ext' = ext]_vars

C18_Witness ==
    \E c \in G :
       /\ guards[c].from = "clone" /\ Armed(c)
       /\ Armed(guards[c].src)
       /\ pays[guards[guards[c].src].v].val # given
       /\ fins[guards[guards[c].src].f].invoked = 0
       /\ log = << >>

\* ---- defer: the method and the free function, run side by side ----------
\* the only value of the payload type ()
Unit == 0

\* PhantomDrop::defer(fun): PhantomDrop::new((), fun)
DeferW(W, f, ftype) ==
    LET W1 == AllocPay(W, Unit)
    IN  NewW(W1, Len(W1.pays), f, ftype, "new", 0)

\* a free defer whose closure ignores fun: PhantomDrop::defer(move |_| ())
DeferFnForgets(W, fun) ==
    LET W1 == AllocFin(W, "noop", 0)
    IN  DeferW(W1, Len(W1.fins), "opaque")

\* defer(fun): PhantomDrop::defer(move |_| fun()); the guard it returns has
\* the type PhantomDrop<(), impl FnOnce(())>, of which only FnOnce is known.
DeferFnW(W, fun) ==
    LET W1 == AllocFin(W, "wrap", fun)
    IN  DeferW(W1, Len(W1.fins), "opaque")

\* the run of the method, with what its last call returned
WorldR ==
    [guards |-> guards, pays |-> pays, fins |-> fins, log |-> log,
     ext |-> ext, ret |-> ret]

\* The state after  let a = PhantomDrop::defer(fun);  in the one run and
\* let b = defer(fun);  in the other, for the same fun.
InitDefer ==
    /\ \E t \in FTypes :
          LET W1 == AllocFin(Empty, "record", 0)
              A == DeferW(W1, 1, t)
              B == DeferFnW(W1, 1)
          IN  /\ guards = A.guards
              /\ pays = A.pays
              /\ fins = A.fins
              /\ log = A.log
              /\ ext = A.ext
              /\ twin = [guards |-> B.guards, pays |-> B.pays,
                         fins |-> B.fins, log |-> B.log, ext |-> B.ext,
                         ret |-> NoRet]
    /\ written = << Unit >>
    /\ given = Unit
    /\ ret = NoRet

\* the same call made in both runs
CommitBoth(WA, WB) ==
    /\ guards' = WA.guards
    /\ pays' = WA.pays
    /\ fins' = WA.fins
    /\ log' = WA.log
    /\ ext' = WA.ext
    /\ ret' = WA.ret
    /\ twin' = WB
    /\ UNCHANGED given

\* the call type-checks in both runs
LiveBoth(g) == Live(g) /\ g \in 1..Len(twin.guards) /\ twin.guards[g].live
TypeBoth(g, types) == guards[g].ftype \in types /\ twin.guards[g].ftype \in types
RoomBoth == Len(guards) <= MaxGuards /\ Len(fins) < MaxFins

IntoInnerR(W, g) ==
    LET W1 == Mark(IntoInnerW(W, g), g, "into_inner", "none")
        p == W.guards[g].v
    IN  [W1 EXCEPT !.pays[p].returned = @ + 1, !.ret = W1.pays[p].val]

NoRetR(W) == [W EXCEPT !.ret = NoRet]

DIntoInner(g) ==
    /\ LiveBoth(g)
    /\ CommitBoth(IntoInnerR(WorldR, g), IntoInnerR(twin, g))
    /\ UNCHANGED written

DForget(g) ==
    /\ LiveBoth(g)
    /\ CommitBoth(NoRetR(Mark(ForgetW(WorldR, g), g, "forget", "none")),
                  NoRetR(Mark(ForgetW(twin, g), g, "forget", "none")))
    /\ UNCHANGED written

DAsMut(g) ==
    /\ LiveBoth(g)
    /\ CommitBoth(NoRetR(AsMutW(WorldR, g, Unit)), NoRetR(AsMutW(twin, g, Unit)))
    /\ written' = [written EXCEPT ![guards[g].v] = Unit]

DAsRef(g) ==
    /\ LiveBoth(g)
    /\ CommitBoth([WorldR EXCEPT !.ret = AsRefW(WorldR, g)],
                  [twin EXCEPT !.ret = AsRefW(twin, g)])
    /\ UNCHANGED written

DNeutralise(g) ==
    /\ LiveBoth(g)
    /\ RoomBoth
    /\ CommitBoth(NoRetR(Mark(NeutraliseW(WorldR, g), g, "neutralise", "none")),
                  NoRetR(Mark(NeutraliseW(twin, g), g, "neutralise", "none")))
    /\ UNCHANGED written

DClone(g) ==
    /\ LiveBoth(g)
    /\ TypeBoth(g, {"closure", "fnptr"})
    /\ RoomBoth
    /\ CommitBoth(NoRetR(CloneW(WorldR, g)), NoRetR(CloneW(twin, g)))
    /\ written' = Append(written, pays[guards[g].v].val)

DNeutraliseInPlace(g) ==
    /\ LiveBoth(g)
    /\ TypeBoth(g, {"fnptr"})
    /\ Len(fins) < MaxFins
    /\ CommitBoth(NoRetR(NeutraliseInPlaceW(WorldR, g)),
                  NoRetR(NeutraliseInPlaceW(twin, g)))
    /\ UNCHANGED written

DDropGuard(g) ==
    /\ LiveBoth(g)
    /\ CommitBoth(NoRetR(Mark(DropW(WorldR, g), g, "drop", "normal")),
                  NoRetR(Mark(DropW(twin, g), g, "drop", "normal")))
    /\ UNCHANGED written

DScopeExit(how) ==
    /\ \E g \in 1..Len(guards) : LiveBoth(g)
    /\ CommitBoth(NoRetR(DropAll(WorldR, Len(guards), how)),
                  NoRetR(DropAll(twin, Len(twin.guards), how)))
    /\ UNCHANGED written

NextDefer ==
    \/ \E g \in 1..Len(guards) : DIntoInner(g)
    \/ \E g \in 1..Len(guards) : DForget(g)
    \/ \E g \in 1..Len(guards) : DAsMut(g)
    \/ \E g \in 1..Len(guards) : DAsRef(g)
    \/ \E g \in 1..Len(guards) : DNeutralise(g)
    \/ \E g \in 1..Len(guards) : DClone(g)
    \/ \E g \in 1..Len(guards) : DNeutraliseInPlace(g)
    \/ \E g \in 1..Len(guards) : DDropGuard(g)
    \/ \E how \in ExitKinds : DScopeExit(how)

SpecDefer == InitDefer /\ [][NextDefer]_vars

\* what a caller can observe of a run: which guards are armed, the payloads
\* read through them, what the last call returned, what fun did, and whether
\* fun was called or destroyed
Obs(W) ==
    [armed |-> [g \in 1..Len(W.guards) |->
                   W.guards[g].live /\ W.guards[g].reads = 0],
     vals |-> [g \in 1..Len(W.guards) |-> W.pays[W.guards[g].v].val],
     ret |-> W.ret,
     log |-> W.log,
     ext |-> W.ext,
     called |-> W.fins[1].invoked,
     destroyed |-> W.fins[1].destroyed]

\* fun was not called before the guard made by defer ended, and was called
\* exactly once, with (), when that guard was dropped
DeferredOnce(W) ==
    /\ W.pays[W.guards[1].v].val = Unit
    /\ W.guards[1].live => (W.fins[1].invoked = 0 /\ W.log = << >>)
    /\ W.guards[1].by = "drop" =>
          /\ W.fins[1].invoked = 1
          /\ W.log = << [f |-> 1, p |-> W.guards[1].v, v |-> Unit] >>
          /\ W.ext = ExtAfter
    /\ W.guards[1].by \in Explicit \ {"boxed"} => W.fins[1].invoked = 0

\* C11: a guard made by PhantomDrop::defer(fun) and one made by defer(fun)
\* hold the payload (); making them does not call fun; fun is called exactly
\* once when the guard is dropped armed; and under the same calls the two
\* runs show the same to the caller at every moment.
C11_Defer ==
    /\ Obs(WorldR) = Obs(twin)
    /\ DeferredOnce(WorldR)
    /\ DeferredOnce(twin)

C11_Witness ==
    /\ guards[1].by = "drop" /\ guards[1].how = "normal"
    /\ twin.guards[1].by = "drop"
    /\ twin.guards[1].ftype = "opaque"
    /\ twin.fins[twin.guards[1].f].logic = "wrap"
    /\ twin.fins[1].invoked = 1 /\ fins[1].invoked = 1
    /\ log = << [f |-> 1, p |-> 1, v |-> Unit] >>
====
